---- MODULE Spec2Model ----
(***************************************************************************)
(* A model of task_manager.py: a command-line to-do list that keeps its    *)
(* tasks in a Python list of dicts and rewrites tasks.json after every     *)
(* mutation.                                                               *)
(*                                                                         *)
(* Text is modelled as a sequence of one-character strings, so that        *)
(* str.strip() and int() are computed rather than assumed.  The content of *)
(* tasks.json is modelled as a sequence of JSON tokens, so that json.dump  *)
(* and json.load are two different computations and a partially written    *)
(* file is a value of the model.                                           *)
(***************************************************************************)
EXTENDS Integers, Sequences, FiniteSets, TLC

(* ------------------------------ bounds -------------------------------- *)

\* The add option is offered only while the list holds fewer tasks than this.
MaxTasks == 2

\* The add option is offered only while the id it would issue is at most this.
MaxId == 2

(* ------------------------------- text --------------------------------- *)

IsSpace(c) == c = " "

IsDigit(c) == c \in {"0", "1", "2", "3", "4", "5", "6", "7", "8", "9"}

DigitVal(c) ==
    CASE c = "0" -> 0 [] c = "1" -> 1 [] c = "2" -> 2 [] c = "3" -> 3
      [] c = "4" -> 4 [] c = "5" -> 5 [] c = "6" -> 6 [] c = "7" -> 7
      [] c = "8" -> 8 [] c = "9" -> 9

RECURSIVE LStrip(_)
LStrip(s) ==
    IF s # << >> /\ IsSpace(Head(s)) THEN LStrip(Tail(s)) ELSE s

RECURSIVE RStrip(_)
RStrip(s) ==
    IF s # << >> /\ IsSpace(s[Len(s)])
    THEN RStrip(SubSeq(s, 1, Len(s) - 1))
    ELSE s

\* A program that forgot .strip().
Strip_identity(s) == s

\* str.strip(): the text without its leading and trailing whitespace.
Strip(s) == RStrip(LStrip(s))

RECURSIVE DigitsValue(_, _)
DigitsValue(s, acc) ==
    IF s = << >> THEN acc
    ELSE DigitsValue(Tail(s), 10 * acc + DigitVal(Head(s)))

AllDigits(s) == s # << >> /\ \A i \in DOMAIN s : IsDigit(s[i])

\* A program that reads a text that is no number as 0 instead of asking again.
ParseInt_lenient(s) ==
    LET t == Strip(s)
    IN  IF AllDigits(t)
        THEN [ok |-> TRUE, val |-> DigitsValue(t, 0)]
        ELSE [ok |-> TRUE, val |-> 0]

\* int(text): [ok |-> FALSE] stands for ValueError.  int() itself ignores
\* surrounding whitespace and accepts one leading sign.
ParseInt(s) ==
    LET t == Strip(s)
        signed == t # << >> /\ Head(t) \in {"-", "+"}
        digits == IF signed THEN Tail(t) ELSE t
    IN  IF AllDigits(digits)
        THEN [ok |-> TRUE,
              val |-> IF signed /\ Head(t) = "-"
                      THEN 0 - DigitsValue(digits, 0)
                      ELSE DigitsValue(digits, 0)]
        ELSE [ok |-> FALSE, val |-> 0]

\* The lines a user types at a numeric prompt or at the menu.
NumLines ==
    {<< >>, <<"x">>, <<"-", "1">>, <<" ", "2", " ">>,
     <<"0">>, <<"1">>, <<"2">>, <<"3">>, <<"4">>, <<"5">>}

\* The lines a user types at the description prompt.
DescLines ==
    {<< >>, <<" ">>, <<" ", " ">>, <<"a">>, <<" ", "a", " ">>}

(* ------------------------------- tasks -------------------------------- *)

Task(i, d, p, c) ==
    [id |-> i, description |-> d, priority |-> p, completed |-> c]

Ids(ts) == {ts[i].id : i \in DOMAIN ts}

SetMax(S) == CHOOSE m \in S : \A x \in S : x <= m

(* --------------------------- JSON tokens ------------------------------ *)

Tok(k, name, n, s) == [k |-> k, name |-> name, n |-> n, s |-> s]

LBracket == Tok("[", "", 0, << >>)
RBracket == Tok("]", "", 0, << >>)
LBrace   == Tok("{", "", 0, << >>)
RBrace   == Tok("}", "", 0, << >>)
Key(name) == Tok("key", name, 0, << >>)
IntTok(n) == Tok("int", "", n, << >>)
StrTok(s) == Tok("str", "", 0, s)
BoolTok(b) == Tok("bool", "", IF b THEN 1 ELSE 0, << >>)
\* Bytes that are no JSON at all.
Garbage == Tok("garbage", "", 0, << >>)

IsScalar(t) == t.k \in {"int", "str", "bool"}

\* json.dump of one task dict: its four members in insertion order.
\* A writer that puts the priority under "id" and the id under "priority".
dump_task_swapped(t) ==
    << LBrace,
       Key("id"), IntTok(t.priority),
       Key("description"), StrTok(t.description),
       Key("priority"), IntTok(t.id),
       Key("completed"), BoolTok(t.completed),
       RBrace >>

dump_task(t) ==
    << LBrace,
       Key("id"), IntTok(t.id),
       Key("description"), StrTok(t.description),
       Key("priority"), IntTok(t.priority),
       Key("completed"), BoolTok(t.completed),
       RBrace >>

RECURSIVE dump_items(_)
dump_items(ts) ==
    IF ts = << >> THEN << >> ELSE dump_task(Head(ts)) \o dump_items(Tail(ts))

\* json.dump(tasks, f, indent=4): the text written for the whole list.
json_dump(ts) == <<LBracket>> \o dump_items(ts) \o <<RBracket>>

(* ----------------------------- json.load ------------------------------ *)

FirstIndex(s, k) ==
    IF \E i \in DOMAIN s : s[i].k = k
    THEN CHOOSE i \in DOMAIN s : s[i].k = k /\ \A j \in 1..(i - 1) : s[j].k # k
    ELSE 0

\* The tokens between the braces of an object: key, scalar, key, scalar ...
IsMembers(body) ==
    /\ Len(body) % 2 = 0
    /\ \A i \in DOMAIN body :
          IF i % 2 = 1 THEN body[i].k = "key" ELSE IsScalar(body[i])

MemberNames(body) == {body[i].name : i \in {j \in DOMAIN body : j % 2 = 1}}

\* The value of member `name`; of a repeated member the last one counts.
MemberValue(body, name) ==
    LET at == {i \in DOMAIN body : i % 2 = 1 /\ body[i].name = name}
    IN  body[SetMax(at) + 1]

TaskKeys == {"id", "description", "priority", "completed"}

\* Whether a parsed object is a task record: exactly the four members, an
\* integer id and priority, a string description, a boolean completed.
IsTaskObject(body) ==
    /\ MemberNames(body) = TaskKeys
    /\ MemberValue(body, "id").k = "int"
    /\ MemberValue(body, "description").k = "str"
    /\ MemberValue(body, "priority").k = "int"
    /\ MemberValue(body, "completed").k = "bool"

ObjectTask(body) ==
    Task(MemberValue(body, "id").n,
         MemberValue(body, "description").s,
         MemberValue(body, "priority").n,
         MemberValue(body, "completed").n = 1)

JsonError == [status |-> "error", val |-> << >>]

\* The elements of an array, left to right.  status "tasks": every element
\* is a task record, val holds them; "other": a valid array with an element
\* that is no task record; "error": no valid JSON (JSONDecodeError).
RECURSIVE ParseItems(_, _, _)
ParseItems(s, acc, allTasks) ==
    IF s = << >>
    THEN [status |-> IF allTasks THEN "tasks" ELSE "other",
          val |-> IF allTasks THEN acc ELSE << >>]
    ELSE IF IsScalar(Head(s))
    THEN ParseItems(Tail(s), acc, FALSE)
    ELSE IF Head(s).k = "{"
    THEN LET j == FirstIndex(s, "}")
             body == SubSeq(s, 2, j - 1)
         IN  IF j = 0 \/ ~IsMembers(body) THEN JsonError
             ELSE IF allTasks /\ IsTaskObject(body)
             THEN ParseItems(SubSeq(s, j + 1, Len(s)),
                             Append(acc, ObjectTask(body)), TRUE)
             ELSE ParseItems(SubSeq(s, j + 1, Len(s)), acc, FALSE)
    ELSE JsonError

\* json.load(f) on the content of the file: documents of nesting depth at
\* most two (a scalar, an object of scalars, an array of scalars and of
\* objects of scalars); everything else is a JSONDecodeError.
json_load(toks) ==
    IF toks = << >> THEN JsonError
    ELSE IF Len(toks) = 1 /\ IsScalar(toks[1])
    THEN [status |-> "other", val |-> << >>]
    ELSE IF toks[1].k = "{"
    THEN IF toks[Len(toks)].k = "}" /\ FirstIndex(toks, "}") = Len(toks)
            /\ IsMembers(SubSeq(toks, 2, Len(toks) - 1))
         THEN [status |-> "other", val |-> << >>]
         ELSE JsonError
    ELSE IF toks[1].k = "[" /\ Len(toks) >= 2 /\ toks[Len(toks)].k = "]"
    THEN ParseItems(SubSeq(toks, 2, Len(toks) - 1), << >>, TRUE)
    ELSE JsonError

(* ------------------------------ the file ------------------------------ *)

\* tasks.json: whether it exists, whether this process may read it, and
\* its content.
File(e, r, d) == [exists |-> e, readable |-> r, data |-> d]

NoFile == File(FALSE, TRUE, << >>)

\* Mode 'r+' in place of 'w': the old content stays until it is overwritten.
open_w_keep(f) == File(TRUE, f.readable, f.data)

\* open(TASK_FILE, 'w'): creates the file or truncates it to length zero.
open_w(f) == File(TRUE, f.readable, << >>)

\* f.write of one token at offset pos (0-based), as on a file: it replaces
\* what is at that offset and leaves the bytes beyond it alone.
write_at(f, pos, tok) ==
    File(f.exists, f.readable,
         SubSeq(f.data, 1, pos) \o <<tok>> \o SubSeq(f.data, pos + 2, Len(f.data)))

RECURSIVE write_from(_, _, _)
write_from(f, toks, pos) ==
    IF pos >= Len(toks) THEN f
    ELSE write_from(write_at(f, pos, toks[pos + 1]), toks, pos + 1)

\* Mode 'w+' in place of 'r': the file is created, or emptied, by the open.
open_r_truncating(f) == File(TRUE, f.readable, << >>)

\* open(TASK_FILE, 'r') and the close at the end of the with block: the file
\* after load_tasks() has run.  Reading neither creates nor changes it.
open_r(f) == f

\* Mode 'a' in place of 'w': the text is added behind the old content.
save_tasks_append(f, ts) == File(TRUE, f.readable, f.data \o json_dump(ts))

\* save_tasks(tasks) run to completion.
save_tasks(f, ts) == write_from(open_w(f), json_dump(ts), 0)

\* load_tasks(): what it returns, or that it raises.  kind "list": a list of
\* task dicts (val); "other": json.load returned something else, which
\* load_tasks hands on as it is; "raise": an exception load_tasks does not
\* catch (open() failing with PermissionError).
load_tasks(f) ==
    IF ~f.exists THEN [kind |-> "list", val |-> << >>]
    ELSE IF ~f.readable THEN [kind |-> "raise", val |-> << >>]
    ELSE LET r == json_load(f.data)
         IN  IF r.status = "error" THEN [kind |-> "list", val |-> << >>]
             ELSE IF r.status = "tasks" THEN [kind |-> "list", val |-> r.val]
             ELSE [kind |-> "other", val |-> << >>]

\* The least id no task holds in place of the greatest id plus one.
generate_new_id_first_free(ts) ==
    CHOOSE n \in 1..(Len(ts) + 1) :
        /\ n \notin Ids(ts)
        /\ \A m \in 1..(n - 1) : m \in Ids(ts)

\* The number of tasks in place of the greatest id.
generate_new_id_len(ts) == Len(ts) + 1

\* The greatest id without the + 1.
generate_new_id_max(ts) ==
    IF ts = << >> THEN 1 ELSE SetMax(Ids(ts))

\* generate_new_id(tasks)
generate_new_id(ts) ==
    IF ts = << >> THEN 1 ELSE SetMax(Ids(ts)) + 1

(* ------------------------------- state -------------------------------- *)

VARIABLES
    pc,           \* where the program is: a prompt it blocks on, or an end
    tasks,        \* main_cli's list `tasks`
    file,         \* tasks.json
    description,  \* add_task's local `description`, between its two prompts
    task_id,      \* prioritize_task's local `task_id`, between its two prompts
    output,       \* the message the last step printed
    shown,        \* the tasks display_tasks printed last, in its order
    wrote,        \* whether the last step ran save_tasks to its end
    fh,           \* save_tasks' open file: the text to write, the offset
    cont,         \* what follows a save_tasks in progress
    last_issued,  \* history: the id add_task gave out last, 0 before the first
    origin,       \* history: what kind of list the session started from
    before,       \* history: `tasks` as the operation in progress found it
    after         \* history: `tasks` as the operation in progress left it

vars == <<pc, tasks, file, description, task_id, output, shown, wrote, fh,
          cont, last_issued, origin, before, after>>

Out(msg) == [msg |-> msg]

NoOutput == Out("")

Closed == [buf |-> << >>, pos |-> 0]

NoCont == [pc |-> "menu", output |-> NoOutput]

\* What tasks.json may hold when the program starts.
InitFiles ==
    { NoFile,
      File(TRUE, FALSE, json_dump(<<Task(1, <<"a">>, 2, FALSE)>>)),
      File(TRUE, TRUE, << >>),
      File(TRUE, TRUE, <<Garbage>>),
      File(TRUE, TRUE, <<LBracket, LBrace, Key("id"), IntTok(1)>>),
      File(TRUE, TRUE, <<IntTok(42)>>),
      File(TRUE, TRUE, <<LBrace, Key("id"), IntTok(1), RBrace>>),
      File(TRUE, TRUE, <<LBracket, IntTok(1), RBracket>>),
      File(TRUE, TRUE, <<LBracket, LBrace, Key("id"), IntTok(1), RBrace, RBracket>>),
      File(TRUE, TRUE, json_dump(<< >>)),
      File(TRUE, TRUE, json_dump(<<Task(1, <<"a">>, 2, FALSE)>>)),
      File(TRUE, TRUE, json_dump(<<Task(2, <<"a">>, 1, TRUE),
                                   Task(1, <<"b">>, 3, FALSE)>>)),
      File(TRUE, TRUE, json_dump(<<Task(1, <<"a">>, 1, TRUE),
                                   Task(1, <<"b">>, 2, FALSE)>>)),
      File(TRUE, TRUE, json_dump(<<Task(2, << >>, 5, FALSE)>>)) }

DistinctIds(ts) ==
    \A i, j \in DOMAIN ts : ts[i].id = ts[j].id => i = j

\* Section 3's invariants on one task: a priority in {1,2,3}, a description
\* that is not empty.
WellFormedTask(t) == t.priority \in {1, 2, 3} /\ t.description # << >>

\* What the claims assume of the storage f the session starts from.
Origin(f) ==
    LET r == load_tasks(f)
    IN  [empty |-> r.kind = "list" /\ r.val = << >>,
         malformed |-> /\ f.exists /\ f.readable /\ f.data # << >>
                       /\ json_load(f.data).status = "error",
         distinct |-> DistinctIds(r.val),
         wellformed |-> \A i \in DOMAIN r.val : WellFormedTask(r.val[i])]

Init ==
    /\ pc = "start"
    /\ tasks = << >>
    /\ file \in InitFiles
    /\ origin = Origin(file)
    /\ description = << >>
    /\ task_id = 0
    /\ output = NoOutput
    /\ shown = << >>
    /\ wrote = FALSE
    /\ fh = Closed
    /\ cont = NoCont
    /\ last_issued = 0
    /\ before = << >>
    /\ after = << >>

(* ----------------------------- display_tasks --------------------------- *)

\* Python orders False before True.
BoolInt(b) == IF b THEN 1 ELSE 0

\* A key that leaves the completion status out.
sort_key_no_completed(x) == <<0, x.priority, x.id>>

\* key=lambda x: (x['completed'], x['priority'], x['id'])
sort_key(x) == <<BoolInt(x.completed), x.priority, x.id>>

\* k1 < k2 on tuples of three numbers: the first place they differ decides.
TupleLess(k1, k2) ==
    \/ k1[1] < k2[1]
    \/ k1[1] = k2[1] /\ k1[2] < k2[2]
    \/ k1[1] = k2[1] /\ k1[2] = k2[2] /\ k1[3] < k2[3]

\* x put into the ordered list s behind every element whose key is not
\* greater than its own.
RECURSIVE insert_by_key(_, _)
insert_by_key(s, x) ==
    IF s = << >> THEN <<x>>
    ELSE IF TupleLess(sort_key(x), sort_key(Head(s)))
    THEN <<x>> \o s
    ELSE <<Head(s)>> \o insert_by_key(Tail(s), x)

\* sorted(tasks, key=...): a new list, ordered by key, stable.
RECURSIVE sorted(_)
sorted(ts) ==
    IF ts = << >> THEN << >>
    ELSE insert_by_key(sorted(SubSeq(ts, 1, Len(ts) - 1)), ts[Len(ts)])

\* tasks.sort(key=...) in place of sorted(tasks, key=...): the caller's list
\* is put in display order.
display_tasks_in_place(ts) == [tasks |-> sorted(ts), shown |-> sorted(ts)]

\* display_tasks(ts): the caller's list after the call, and the tasks it
\* printed, in the order it printed them (none for an empty list).
display_tasks(ts) ==
    [tasks |-> ts, shown |-> IF ts = << >> THEN << >> ELSE sorted(ts)]

\* A step that runs display_tasks on the list ts, which is `tasks` after it.
Displayed(ts) ==
    /\ tasks' = display_tasks(ts).tasks
    /\ shown' = display_tasks(ts).shown

\* A step that leaves `tasks` as ts and does not reach a display_tasks.
NotDisplayed(ts) == tasks' = ts /\ UNCHANGED shown

(* ------------------------------ save_tasks ----------------------------- *)

\* A handler's call of save_tasks(ts), ts being its list as it mutated it,
\* and what follows the call: the handler's message, and at the top of
\* main_cli's loop the next display_tasks.
\* atomic: the call runs to its end within the step.  Otherwise the step
\* stops in front of the call, and SaveOpen and SaveWrite carry it out.
Persist(atomic, ts, nextpc, out) ==
    IF atomic
    THEN /\ file' = save_tasks(file, ts)
         /\ pc' = nextpc
         /\ output' = out
         /\ wrote' = TRUE
         /\ before' = ts
         /\ after' = ts
         /\ IF nextpc = "menu" THEN Displayed(ts) ELSE NotDisplayed(ts)
         /\ UNCHANGED <<fh, cont>>
    ELSE /\ NotDisplayed(ts)
         /\ pc' = "save_open"
         /\ cont' = [pc |-> nextpc, output |-> out]
         /\ output' = NoOutput
         /\ wrote' = FALSE
         /\ before' = tasks
         /\ after' = ts
         /\ UNCHANGED <<file, fh>>

\* A step that does not call save_tasks.
NoSave == wrote' = FALSE /\ UNCHANGED <<file, fh, cont, before, after>>

(* ------------------------------- main_cli ------------------------------ *)

\* tasks = load_tasks(), the welcome line and the first display_tasks(tasks).
\* display_tasks sorts by x['completed'], so a loaded value that is no list
\* of task dicts ends the program with a TypeError or KeyError.  (The values
\* of that kind in InitFiles are all truthy; a falsy one, such as 0 or null,
\* would pass display_tasks as an empty list and fail at the first append.)
Load ==
    /\ pc = "start"
    /\ LET r == load_tasks(file)
       IN  IF r.kind = "list"
           THEN /\ Displayed(r.val)
                /\ pc' = "menu"
                /\ output' = Out("welcome")
           ELSE /\ NotDisplayed(<< >>)
                /\ pc' = "error"
                /\ output' = Out("traceback")
    /\ file' = open_r(file)
    /\ before' = tasks'
    /\ after' = tasks'
    /\ wrote' = FALSE
    /\ UNCHANGED <<description, task_id, fh, cont, last_issued, origin>>

\* choice '1': continue
main_cli_view(line) ==
    /\ pc = "menu"
    /\ Strip(line) = <<"1">>
    /\ Displayed(tasks)
    /\ output' = NoOutput
    /\ NoSave
    /\ UNCHANGED <<pc, description, task_id, last_issued, origin>>

\* choice '2': add_task prints its header and asks for the description.
main_cli_add(line) ==
    /\ pc = "menu"
    /\ Strip(line) = <<"2">>
    /\ Len(tasks) < MaxTasks
    /\ generate_new_id(tasks) <= MaxId
    /\ pc' = "add_description"
    /\ output' = NoOutput
    /\ NoSave
    /\ UNCHANGED <<tasks, shown, description, task_id, last_issued, origin>>

\* choice '3': complete_task displays the list and returns at once when it
\* is empty, else asks for an id.
main_cli_complete(line) ==
    /\ pc = "menu"
    /\ Strip(line) = <<"3">>
    /\ Displayed(tasks)
    /\ pc' = (IF tasks = << >> THEN "menu" ELSE "complete_id")
    /\ output' = NoOutput
    /\ NoSave
    /\ UNCHANGED <<description, task_id, last_issued, origin>>

\* choice '4': prioritize_task displays the list and returns at once when it
\* is empty, else asks for an id.
main_cli_prioritize(line) ==
    /\ pc = "menu"
    /\ Strip(line) = <<"4">>
    /\ Displayed(tasks)
    /\ pc' = (IF tasks = << >> THEN "menu" ELSE "prioritize_id")
    /\ output' = NoOutput
    /\ NoSave
    /\ UNCHANGED <<description, task_id, last_issued, origin>>

\* choice '5': delete_task displays the list and returns at once when it
\* is empty, else asks for an id.
main_cli_delete(line) ==
    /\ pc = "menu"
    /\ Strip(line) = <<"5">>
    /\ Displayed(tasks)
    /\ pc' = (IF tasks = << >> THEN "menu" ELSE "delete_id")
    /\ output' = NoOutput
    /\ NoSave
    /\ UNCHANGED <<description, task_id, last_issued, origin>>

\* An exit that leaves tasks.json alone.
main_cli_exit_no_save(line, atomic) ==
    /\ pc = "menu"
    /\ Strip(line) = <<"0">>
    /\ pc' = "exited"
    /\ output' = Out("goodbye")
    /\ NoSave
    /\ UNCHANGED <<tasks, shown, description, task_id, last_issued, origin>>

\* choice '0': save_tasks(tasks), break
main_cli_exit(line, atomic) ==
    /\ pc = "menu"
    /\ Strip(line) = <<"0">>
    /\ Persist(atomic, tasks, "exited", Out("goodbye"))
    /\ UNCHANGED <<description, task_id, last_issued, origin>>

\* any other choice
main_cli_invalid(line) ==
    /\ pc = "menu"
    /\ Strip(line) \notin {<<"0">>, <<"1">>, <<"2">>, <<"3">>, <<"4">>, <<"5">>}
    /\ Displayed(tasks)
    /\ output' = Out("invalid_choice")
    /\ NoSave
    /\ UNCHANGED <<pc, description, task_id, last_issued, origin>>

(* ------------------------------- add_task ------------------------------ *)

\* description = input(...).strip(); an empty one ends add_task.
add_task_description(line) ==
    /\ pc = "add_description"
    /\ IF Strip(line) = << >>
       THEN /\ pc' = "menu"
            /\ description' = << >>
            /\ output' = Out("empty_description")
            /\ Displayed(tasks)
       ELSE /\ pc' = "add_priority"
            /\ description' = Strip(line)
            /\ output' = NoOutput
            /\ NotDisplayed(tasks)
    /\ NoSave
    /\ UNCHANGED <<task_id, last_issued, origin>>

\* A range check without its upper end.
valid_priority_no_upper(p) == p >= 1

\* priority in [1, 2, 3]
valid_priority(p) == p \in {1, 2, 3}

\* tasks.insert(0, new_task) in place of tasks.append(new_task).
append_task_front(ts, t) == <<t>> \o ts

\* tasks.append(new_task)
append_task(ts, t) == Append(ts, t)

\* One turn of the priority loop; with a valid priority the rest of add_task.
add_task_priority(line, atomic) ==
    /\ pc = "add_priority"
    /\ LET r == ParseInt(Strip(line))
       IN  IF ~r.ok
           THEN /\ output' = Out("invalid_number")
                /\ NoSave
                /\ UNCHANGED <<pc, tasks, shown, description, last_issued>>
           ELSE IF ~valid_priority(r.val)
           THEN /\ output' = Out("invalid_priority")
                /\ NoSave
                /\ UNCHANGED <<pc, tasks, shown, description, last_issued>>
           ELSE LET new_id == generate_new_id(tasks)
                    new_task == Task(new_id, description, r.val, FALSE)
                IN  /\ last_issued' = new_id
                    /\ description' = << >>
                    /\ Persist(atomic, append_task(tasks, new_task), "menu",
                               Out("added"))
    /\ UNCHANGED <<task_id, origin>>

(* --------------------- complete, prioritize, delete -------------------- *)

HasId(ts, id) == \E i \in DOMAIN ts : ts[i].id = id

\* The first task with this id, as the loops over `tasks` find it.
FirstWithId(ts, id) ==
    CHOOSE i \in DOMAIN ts :
        ts[i].id = id /\ \A j \in 1..(i - 1) : ts[j].id # id

\* task['completed'] = not task['completed']
mark_completed_toggle(ts, id) ==
    [ts EXCEPT ![FirstWithId(ts, id)].completed = ~@]

\* task['completed'] = True on the first task with this id
mark_completed(ts, id) ==
    [ts EXCEPT ![FirstWithId(ts, id)].completed = TRUE]

\* The new priority given to every task, the id not looked at.
set_priority_all(ts, id, p) ==
    [i \in DOMAIN ts |-> [ts[i] EXCEPT !.priority = p]]

\* target_task['priority'] = new_priority on the first task with this id
set_priority(ts, id, p) ==
    [ts EXCEPT ![FirstWithId(ts, id)].priority = p]

\* del tasks[i] on the first task with this id, in place of the filter.
without_id_first(ts, id) ==
    IF \E i \in DOMAIN ts : ts[i].id = id
    THEN LET k == FirstWithId(ts, id)
         IN  SubSeq(ts, 1, k - 1) \o SubSeq(ts, k + 1, Len(ts))
    ELSE ts

\* [task for task in tasks if task['id'] != task_id]
RECURSIVE without_id(_, _)
without_id(ts, id) ==
    IF ts = << >> THEN << >>
    ELSE IF Head(ts).id # id
    THEN <<Head(ts)>> \o without_id(Tail(ts), id)
    ELSE without_id(Tail(ts), id)

\* One turn of complete_task's id loop; with a number the rest of it.
complete_task_id(line, atomic) ==
    /\ pc = "complete_id"
    /\ LET r == ParseInt(Strip(line))
       IN  IF ~r.ok
           THEN /\ output' = Out("invalid_number")
                /\ NoSave
                /\ UNCHANGED <<pc, tasks, shown>>
           ELSE IF HasId(tasks, r.val)
           THEN Persist(atomic, mark_completed(tasks, r.val), "menu",
                        Out("completed"))
           ELSE /\ pc' = "menu"
                /\ output' = Out("not_found")
                /\ NoSave
                /\ Displayed(tasks)
    /\ UNCHANGED <<description, task_id, last_issued, origin>>

\* One turn of prioritize_task's id loop; with a number the search.
prioritize_task_id(line) ==
    /\ pc = "prioritize_id"
    /\ LET r == ParseInt(Strip(line))
       IN  IF ~r.ok
           THEN /\ output' = Out("invalid_number")
                /\ UNCHANGED <<pc, tasks, shown, task_id>>
           ELSE IF HasId(tasks, r.val)
           THEN /\ pc' = "prioritize_new"
                /\ task_id' = r.val
                /\ output' = NoOutput
                /\ NotDisplayed(tasks)
           ELSE /\ pc' = "menu"
                /\ output' = Out("not_found")
                /\ Displayed(tasks)
                /\ UNCHANGED task_id
    /\ NoSave
    /\ UNCHANGED <<description, last_issued, origin>>

\* One turn of the new-priority loop; with a valid priority the update.
prioritize_task_new(line, atomic) ==
    /\ pc = "prioritize_new"
    /\ LET r == ParseInt(Strip(line))
       IN  IF ~r.ok
           THEN /\ output' = Out("invalid_number")
                /\ NoSave
                /\ UNCHANGED <<pc, tasks, shown, task_id>>
           ELSE IF ~valid_priority(r.val)
           THEN /\ output' = Out("invalid_priority")
                /\ NoSave
                /\ UNCHANGED <<pc, tasks, shown, task_id>>
           ELSE /\ task_id' = 0
                /\ Persist(atomic, set_priority(tasks, task_id, r.val), "menu",
                           Out("priority_updated"))
    /\ UNCHANGED <<description, last_issued, origin>>

\* <= in place of <.
deleted_some_le(old, new) == Len(new) <= Len(old)

\* len(tasks) < initial_length
deleted_some(old, new) == Len(new) < Len(old)

\* One turn of delete_task's id loop; with a number the rest of it.
delete_task_id(line, atomic) ==
    /\ pc = "delete_id"
    /\ LET r == ParseInt(Strip(line))
       IN  IF ~r.ok
           THEN /\ output' = Out("invalid_number")
                /\ NoSave
                /\ UNCHANGED <<pc, tasks, shown>>
           ELSE LET kept == without_id(tasks, r.val)
                IN  IF deleted_some(tasks, kept)
                    THEN Persist(atomic, kept, "menu", Out("deleted"))
                    ELSE /\ pc' = "menu"
                         /\ output' = Out("not_found")
                         /\ NoSave
                         /\ Displayed(kept)
    /\ UNCHANGED <<description, task_id, last_issued, origin>>

(* ------------------- save_tasks step by step, crashes ------------------ *)

\* with open(TASK_FILE, 'w') as f
SaveOpen ==
    /\ pc = "save_open"
    /\ file' = open_w(file)
    /\ fh' = [buf |-> json_dump(tasks), pos |-> 0]
    /\ pc' = "save_write"
    /\ UNCHANGED <<tasks, shown, description, task_id, output, wrote, cont,
                   last_issued, origin, before, after>>

\* json.dump writes the text piece by piece; the with block then closes the
\* file, the handler prints its message and returns, and the top of
\* main_cli's loop displays the list.
SaveWrite ==
    /\ pc = "save_write"
    /\ IF fh.pos < Len(fh.buf)
       THEN /\ file' = write_at(file, fh.pos, fh.buf[fh.pos + 1])
            /\ fh' = [fh EXCEPT !.pos = fh.pos + 1]
            /\ NotDisplayed(tasks)
            /\ UNCHANGED <<pc, output, wrote, cont>>
       ELSE /\ fh' = Closed
            /\ pc' = cont.pc
            /\ output' = cont.output
            /\ cont' = NoCont
            /\ wrote' = TRUE
            /\ IF cont.pc = "menu" THEN Displayed(tasks) ELSE NotDisplayed(tasks)
            /\ UNCHANGED file
    /\ before' = (IF fh.pos < Len(fh.buf) THEN before ELSE tasks)
    /\ after' = (IF fh.pos < Len(fh.buf) THEN after ELSE tasks)
    /\ UNCHANGED <<description, task_id, last_issued, origin>>

\* The process dies inside an operation: its memory is gone, tasks.json
\* stays as it is at that moment.
Crash ==
    /\ pc \in {"add_description", "add_priority", "complete_id", "prioritize_id",
               "prioritize_new", "delete_id", "save_open", "save_write"}
    /\ pc' = "crashed"
    /\ tasks' = << >>
    /\ shown' = << >>
    /\ description' = << >>
    /\ task_id' = 0
    /\ output' = NoOutput
    /\ wrote' = FALSE
    /\ fh' = Closed
    /\ cont' = NoCont
    /\ UNCHANGED <<file, last_issued, origin, before, after>>

\* The program is started again after a crash: load_tasks() and the first
\* display_tasks(tasks).  The session that follows is a session like any
\* other, started on the file the crash left; this model ends with its load.
Restart ==
    /\ pc = "crashed"
    /\ LET r == load_tasks(file)
       IN  IF r.kind = "list"
           THEN /\ Displayed(r.val)
                /\ pc' = "restarted"
                /\ output' = Out("welcome")
           ELSE /\ NotDisplayed(<< >>)
                /\ pc' = "error"
                /\ output' = Out("traceback")
    /\ file' = open_r(file)
    /\ UNCHANGED <<description, task_id, wrote, fh, cont, last_issued, origin,
                   before, after>>

\* save_tasks raises OSError: open() refuses the file (it is left as it
\* was), or a write of json.dump fails with text still to write (the file
\* stays truncated, holding what was written so far).  No handler and no
\* caller catches it: the with block closes the file, the exception leaves
\* the handler and main_cli, and the program ends with `tasks` as mutated.
SaveFail ==
    /\ \/ pc = "save_open" /\ output' = Out("open_failed")
       \/ pc = "save_write" /\ fh.pos < Len(fh.buf) /\ output' = Out("write_failed")
    /\ pc' = "error"
    /\ fh' = Closed
    /\ cont' = NoCont
    /\ wrote' = FALSE
    /\ UNCHANGED <<tasks, shown, file, description, task_id, last_issued,
                   origin, before, after>>

(* ---------------------------- specifications --------------------------- *)

\* The program with every save_tasks call running to its end.
Next ==
    \/ Load
    \/ \E line \in NumLines : main_cli_view(line)
    \/ \E line \in NumLines : main_cli_add(line)
    \/ \E line \in NumLines : main_cli_complete(line)
    \/ \E line \in NumLines : main_cli_prioritize(line)
    \/ \E line \in NumLines : main_cli_delete(line)
    \/ \E line \in NumLines : main_cli_exit(line, TRUE)
    \/ \E line \in NumLines : main_cli_invalid(line)
    \/ \E line \in DescLines : add_task_description(line)
    \/ \E line \in NumLines : add_task_priority(line, TRUE)
    \/ \E line \in NumLines : complete_task_id(line, TRUE)
    \/ \E line \in NumLines : prioritize_task_id(line)
    \/ \E line \in NumLines : prioritize_task_new(line, TRUE)
    \/ \E line \in NumLines : delete_task_id(line, TRUE)

Spec == Init /\ [][Next]_vars

\* The program with save_tasks carried out step by step, a crash possible
\* inside every operation, and the restart that follows it.
NextCrash ==
    \/ Load
    \/ \E line \in NumLines : main_cli_view(line)
    \/ \E line \in NumLines : main_cli_add(line)
    \/ \E line \in NumLines : main_cli_complete(line)
    \/ \E line \in NumLines : main_cli_prioritize(line)
    \/ \E line \in NumLines : main_cli_delete(line)
    \/ \E line \in NumLines : main_cli_exit(line, FALSE)
    \/ \E line \in NumLines : main_cli_invalid(line)
    \/ \E line \in DescLines : add_task_description(line)
    \/ \E line \in NumLines : add_task_priority(line, FALSE)
    \/ \E line \in NumLines : complete_task_id(line, FALSE)
    \/ \E line \in NumLines : prioritize_task_id(line)
    \/ \E line \in NumLines : prioritize_task_new(line, FALSE)
    \/ \E line \in NumLines : delete_task_id(line, FALSE)
    \/ SaveOpen
    \/ SaveWrite
    \/ Crash
    \/ Restart

SpecCrash == Init /\ [][NextCrash]_vars

\* The program with save_tasks carried out step by step and a failure
\* possible at its open and at each of its writes.
NextFail ==
    \/ Load
    \/ \E line \in NumLines : main_cli_view(line)
    \/ \E line \in NumLines : main_cli_add(line)
    \/ \E line \in NumLines : main_cli_complete(line)
    \/ \E line \in NumLines : main_cli_prioritize(line)
    \/ \E line \in NumLines : main_cli_delete(line)
    \/ \E line \in NumLines : main_cli_exit(line, FALSE)
    \/ \E line \in NumLines : main_cli_invalid(line)
    \/ \E line \in DescLines : add_task_description(line)
    \/ \E line \in NumLines : add_task_priority(line, FALSE)
    \/ \E line \in NumLines : complete_task_id(line, FALSE)
    \/ \E line \in NumLines : prioritize_task_id(line)
    \/ \E line \in NumLines : prioritize_task_new(line, FALSE)
    \/ \E line \in NumLines : delete_task_id(line, FALSE)
    \/ SaveOpen
    \/ SaveWrite
    \/ SaveFail

SpecFail == Init /\ [][NextFail]_vars

(* ------------------------------- claims -------------------------------- *)

\* A step of Spec in which add_task appends a task: the only step from the
\* priority prompt back to the menu.
AddSucceeds == pc = "add_priority" /\ pc' = "menu"

\* The id of the task an add step appended.
IssuedId(ts) == ts[Len(ts)].id

\* C1, as the spec states it: in a session started from an empty list, every
\* id add_task gives out is greater than the id it gave out before, so no id
\* is given out twice, deletes or not.
C1_IdsNeverReused ==
    [][(origin.empty /\ AddSucceeds) => IssuedId(tasks') > last_issued]_vars

\* C1, amended: in a session started from an empty list, every id add_task
\* gives out is at least 1 and greater than the id of every task in the list
\* at that moment; it is greater than the id given out before whenever the
\* task that got that id is still in the list.
C1_IdsAboveThoseInUse ==
    [][(origin.empty /\ AddSucceeds) =>
          /\ IssuedId(tasks') >= 1
          /\ \A i \in DOMAIN tasks : IssuedId(tasks') > tasks[i].id
          /\ (last_issued \in Ids(tasks) => IssuedId(tasks') > last_issued)]_vars

\* C1's case: a session started from an empty list has added a second task
\* next to the first.
C1_Witness ==
    /\ origin.empty
    /\ pc = "menu"
    /\ output.msg = "added"
    /\ Len(tasks) = 2
    /\ last_issued = 2

\* C2: in a session started from no file or from a list with pairwise
\* distinct ids, no two tasks of the list in memory have the same id.
C2_UniqueIds == origin.distinct => DistinctIds(tasks)

\* C2's case: a list of distinct ids loaded from the file, and a task added
\* to it in this session.
C2_Witness ==
    /\ origin.distinct
    /\ ~origin.empty
    /\ pc = "menu"
    /\ output.msg = "added"
    /\ Len(tasks) = 2
    /\ last_issued # 0

SuccessMessages == {"added", "completed", "priority_updated", "deleted"}

\* C3: back at the menu after an add, complete, reprioritize or delete that
\* succeeded, and after Exit, tasks.json holds exactly the list in memory.
C3_FileEqualsMemory ==
    (\/ pc = "menu" /\ output.msg \in SuccessMessages
     \/ pc = "exited")
    => /\ load_tasks(file) = [kind |-> "list", val |-> tasks]
       /\ file.data = json_dump(tasks)

\* C3's case: a delete has succeeded on a list of two tasks, so the text
\* written is shorter than the text it replaced.
C3_Witness ==
    /\ pc = "menu"
    /\ output.msg = "deleted"
    /\ Len(tasks) = 1
    /\ wrote

\* C4: after a crash inside an operation, load_tasks() of the restarted
\* program does not fail, and returns the list as the operation found it, the
\* list as the operation left it, or the empty list.
C4_CrashLeavesBeforeAfterOrEmpty ==
    /\ pc = "crashed" =>
          /\ load_tasks(file).kind = "list"
          /\ load_tasks(file).val \in {before, after, << >>}
    /\ pc = "restarted" => tasks \in {before, after, << >>}

\* C4's case: the program crashed part-way through the write of a changed,
\* non-empty list over a non-empty one, and the restart loaded the empty list.
C4_Witness ==
    /\ pc = "restarted"
    /\ before # << >>
    /\ after # << >>
    /\ before # after
    /\ file.data # << >>
    /\ tasks = << >>

\* Storage that is absent, unreadable or malformed: no file, a file open()
\* may not read, or content that is not a JSON list of task records.
BadStorage(f) ==
    \/ ~f.exists
    \/ ~f.readable
    \/ json_load(f.data).status # "tasks"

\* C5: on absent, unreadable or malformed storage load_tasks() returns the
\* empty list and the program goes on.
C5_LoadNeverFails ==
    [][(pc = "start" /\ BadStorage(file)) =>
          (pc' # "error" /\ tasks' = << >>)]_vars

\* C6: complete, reprioritize or delete with a number that is the id of no
\* task leaves the list and tasks.json as they are, writes nothing, reports
\* not-found and returns to the menu.
C6_NotFoundChangesNothing ==
    [][\A line \in NumLines :
          (/\ ParseInt(line).ok
           /\ ParseInt(line).val \notin Ids(tasks)
           /\ \/ complete_task_id(line, TRUE)
              \/ prioritize_task_id(line)
              \/ delete_task_id(line, TRUE))
          => /\ tasks' = tasks
             /\ file' = file
             /\ ~wrote'
             /\ output'.msg = "not_found"
             /\ pc' = "menu"]_vars

\* C6's case: an id that no task of a non-empty list has was entered, and
\* the program is back at the menu.
C6_Witness ==
    /\ pc = "menu"
    /\ output.msg = "not_found"
    /\ tasks # << >>
    /\ ~wrote

AllSpaces(line) == \A i \in DOMAIN line : line[i] = " "

\* C7: a description that is empty once its whitespace is trimmed ends
\* add_task at once: the list and tasks.json stay as they are, nothing is
\* written, no id is used up, and the priority is not asked for.
C7_EmptyDescriptionRejected ==
    [][\A line \in DescLines :
          (AllSpaces(line) /\ add_task_description(line))
          => /\ tasks' = tasks
             /\ file' = file
             /\ ~wrote'
             /\ last_issued' = last_issued
             /\ generate_new_id(tasks') = generate_new_id(tasks)
             /\ output'.msg = "empty_description"
             /\ pc' = "menu"]_vars

\* C7's case: a description of blanks only was entered, with a task in the
\* list and on file.
C7_Witness ==
    /\ pc = "menu"
    /\ output.msg = "empty_description"
    /\ tasks # << >>
    /\ file.data = json_dump(tasks)

\* C8: an add that succeeds appends exactly one task at the end of the list:
\* not completed, with the description and the priority entered, and with id
\* 1 on an empty list and the greatest id + 1 otherwise, an id greater than
\* all those in the list; the tasks that were there stay as they are.
C8_AddAppendsOneTask ==
    [][\A line \in NumLines :
          (add_task_priority(line, TRUE) /\ pc' = "menu")
          => LET n == Len(tasks)
                 new == tasks'[n + 1]
             IN  /\ Len(tasks') = n + 1
                 /\ SubSeq(tasks', 1, n) = tasks
                 /\ new.completed = FALSE
                 /\ new.description = description
                 /\ AllDigits(Strip(line))
                 /\ new.priority = DigitsValue(Strip(line), 0)
                 /\ tasks = << >> => new.id = 1
                 /\ tasks # << >> =>
                       /\ \E i \in DOMAIN tasks : new.id = tasks[i].id + 1
                       /\ \A i \in DOMAIN tasks : new.id > tasks[i].id]_vars

\* C8's case: a task has been added to a list whose first task was loaded
\* from the file with another description.
C8_Witness ==
    /\ pc = "menu"
    /\ output.msg = "added"
    /\ Len(tasks) = 2
    /\ tasks[2].id = tasks[1].id + 1
    /\ tasks[2].description # tasks[1].description
    /\ ~tasks[2].completed

\* C9: completion is one-way.  In every step, a completed task that stays in
\* the list stays completed: a step that does not shorten the list leaves
\* each completed task in its place, with its id, completed; a step that
\* shortens the list leaves only tasks that were in it, as they were.
C9_CompletionOneWay ==
    [][/\ Len(tasks') >= Len(tasks) =>
             \A i \in DOMAIN tasks :
                 tasks[i].completed =>
                     tasks'[i].id = tasks[i].id /\ tasks'[i].completed
       /\ Len(tasks') < Len(tasks) =>
             \A j \in DOMAIN tasks' : \E i \in DOMAIN tasks : tasks'[j] = tasks[i]]_vars

\* C9's case: the priority of a task has been changed in a list of two in
\* which a task is completed.
C9_Witness ==
    /\ pc = "menu"
    /\ output.msg = "priority_updated"
    /\ Len(tasks) = 2
    /\ \E i \in DOMAIN tasks : tasks[i].completed

\* C10: in a session started from no file or from well-formed storage, every
\* task of the list has a priority in {1,2,3} and a description that is not
\* empty, whatever is typed at the prompts.
C10_PriorityAndDescriptionValid ==
    origin.wellformed =>
        \A i \in DOMAIN tasks :
            /\ tasks[i].priority \in {1, 2, 3}
            /\ tasks[i].description # << >>

\* C10's case: an out-of-range priority was entered for an existing task and
\* the prompt is asked again.
C10_Witness ==
    /\ origin.wellformed
    /\ pc = "prioritize_new"
    /\ output.msg = "invalid_priority"
    /\ tasks # << >>

\* C11: a complete that succeeds changes only the completed flag of the task
\* with the id entered, a reprioritize that succeeds only the priority of the
\* task with the id entered; every other field and every other task, the
\* length and the order of the list stay, and no step that keeps the length
\* of the list changes the id of a task.
C11_CompleteAndPrioritizeFrame ==
    [][/\ \A line \in NumLines :
             (/\ complete_task_id(line, TRUE)
              /\ ParseInt(line).ok
              /\ ParseInt(line).val \in Ids(tasks))
             => \E k \in DOMAIN tasks :
                   /\ tasks[k].id = ParseInt(line).val
                   /\ DOMAIN tasks' = DOMAIN tasks
                   /\ tasks'[k] = [tasks[k] EXCEPT !.completed = TRUE]
                   /\ \A i \in DOMAIN tasks : i # k => tasks'[i] = tasks[i]
       /\ \A line \in NumLines :
             (prioritize_task_new(line, TRUE) /\ pc' = "menu")
             => \E k \in DOMAIN tasks :
                   /\ tasks[k].id = task_id
                   /\ DOMAIN tasks' = DOMAIN tasks
                   /\ tasks'[k] = [tasks[k] EXCEPT !.priority = ParseInt(line).val]
                   /\ \A i \in DOMAIN tasks : i # k => tasks'[i] = tasks[i]
       /\ Len(tasks') = Len(tasks) =>
             \A i \in DOMAIN tasks : tasks'[i].id = tasks[i].id]_vars

\* C11's case: in a list of two tasks of different priorities, the priority
\* of one has been changed.
C11_Witness ==
    /\ pc = "menu"
    /\ output.msg = "priority_updated"
    /\ Len(tasks) = 2
    /\ tasks[1].priority # tasks[2].priority

\* The indices of the tasks a delete of `id` keeps.
KeptBy(ts, id) == {i \in DOMAIN ts : ts[i].id # id}

\* The j-th smallest element of a set of numbers.
Nth(S, j) == CHOOSE i \in S : Cardinality({k \in S : k < i}) = j - 1

\* C12: a delete that succeeds removes the tasks whose id is the one entered
\* and nothing else: the other tasks stay, each as it was, in the order they
\* had.
C12_DeleteRemovesOnlyThatId ==
    [][\A line \in NumLines :
          (/\ delete_task_id(line, TRUE)
           /\ ParseInt(line).ok
           /\ ParseInt(line).val \in Ids(tasks))
          => LET kept == KeptBy(tasks, ParseInt(line).val)
             IN  /\ Len(tasks') = Cardinality(kept)
                 /\ \A j \in DOMAIN tasks' : tasks'[j] = tasks[Nth(kept, j)]
                 /\ output'.msg = "deleted"]_vars

\* C12's case: a list loaded with two tasks of one id, both removed by a
\* delete of that id.
C12_Witness ==
    /\ pc = "menu"
    /\ output.msg = "deleted"
    /\ ~origin.distinct
    /\ last_issued = 0
    /\ tasks = << >>

\* The program has ended on a failure of save_tasks.
SaveFailed == pc = "error" /\ output.msg \in {"open_failed", "write_failed"}

\* C13, as the spec states it: when a persist fails the failure reaches the
\* caller, the list in memory keeps the mutation, and tasks.json still holds
\* the list as it was before the operation.
C13_FailedSaveKeepsOldFile ==
    SaveFailed =>
        /\ tasks = after
        /\ load_tasks(file) = [kind |-> "list", val |-> before]

\* C13, amended: when a persist fails the failure reaches the caller (nothing
\* catches it, the program ends), the list in memory keeps the mutation, and
\* tasks.json does not hold the text of the mutated list: it is untouched,
\* and loads as the list before the operation, when open() failed; it is an
\* incomplete text, which load_tasks() reads as the empty list, when a write
\* failed after open() had truncated it.
C13_FailedSaveLeavesOldOrBrokenFile ==
    SaveFailed =>
        /\ tasks = after
        /\ before # after => file.data # json_dump(after)
        /\ output.msg = "open_failed" =>
              load_tasks(file) = [kind |-> "list", val |-> before]
        /\ output.msg = "write_failed" =>
              /\ json_load(file.data).status = "error"
              /\ load_tasks(file) = [kind |-> "list", val |-> << >>]

\* C13's case: a write failed while a changed list of two tasks was written
\* over the file of a non-empty list.
C13_Witness ==
    /\ SaveFailed
    /\ output.msg = "write_failed"
    /\ before # << >>
    /\ before # after
    /\ Len(tasks) = 2
    /\ file.data # << >>

\* Lines that are no number, numbers that are no priority, and priorities.
NonNumericLines == {<< >>, <<"x">>}
OutOfRangeLines == {<<"-", "1">>, <<"0">>, <<"4">>, <<"5">>}
PriorityLines == {<<"1">>, <<"2">>, <<"3">>, <<" ", "2", " ">>}

\* The step asks the same prompt again: the program goes on, at the same
\* place, with the list and tasks.json as they were.
AskedAgain ==
    /\ pc' = pc
    /\ tasks' = tasks
    /\ file' = file
    /\ ~wrote'
    /\ output'.msg \in {"invalid_number", "invalid_priority"}

\* C14: a line that is no number, or a number outside {1,2,3}, typed at a
\* priority prompt, and a line that is no number typed at an id prompt, never
\* ends the program and never changes the list or tasks.json: the same prompt
\* is asked again, and a priority prompt is left only by a step that read a
\* priority in {1,2,3}.
C14_InvalidInputAsksAgain ==
    [][/\ \A line \in NonNumericLines \cup OutOfRangeLines :
             (add_task_priority(line, TRUE) \/ prioritize_task_new(line, TRUE))
             => AskedAgain
       /\ \A line \in NonNumericLines :
             (\/ complete_task_id(line, TRUE)
              \/ prioritize_task_id(line)
              \/ delete_task_id(line, TRUE))
             => AskedAgain
       /\ (pc = "add_priority" /\ pc' # pc) =>
             \E line \in PriorityLines : add_task_priority(line, TRUE)
       /\ (pc = "prioritize_new" /\ pc' # pc) =>
             \E line \in PriorityLines : prioritize_task_new(line, TRUE)]_vars

\* C14's case: the new-priority prompt of prioritize is asked again after a
\* line that is no number, with the two tasks of the list as they were.
C14_Witness ==
    /\ pc = "prioritize_new"
    /\ output.msg = "invalid_number"
    /\ Len(tasks) = 2
    /\ ~wrote

\* Task a may stand in front of task b in the display: an incomplete task in
\* front of a completed one; with the same status, the lower priority number
\* first; with the same status and priority, the lower id first.
MayPrecede(a, b) ==
    \/ ~a.completed /\ b.completed
    \/ a.completed = b.completed /\ a.priority < b.priority
    \/ a.completed = b.completed /\ a.priority = b.priority /\ a.id <= b.id

Count(s, t) == Cardinality({i \in DOMAIN s : s[i] = t})

IsPermutation(s, ts) ==
    /\ Len(s) = Len(ts)
    /\ \A i \in DOMAIN ts : Count(s, ts[i]) = Count(ts, ts[i])

\* C15: at the menu, what display_tasks has just printed is a permutation of
\* the list, ordered by (completed, priority, id) ascending: incomplete tasks
\* before completed ones, then the lower priority number, then the lower id.
C15_DisplayOrder ==
    pc = "menu" =>
        /\ IsPermutation(shown, tasks)
        /\ \A i, j \in DOMAIN shown : i < j => MayPrecede(shown[i], shown[j])

\* C15's case: a list of two displayed in another order than its own, the
\* incomplete task of priority 3 in front of the completed one of priority 1.
C15_Witness ==
    /\ pc = "menu"
    /\ Len(shown) = 2
    /\ shown # tasks
    /\ ~shown[1].completed /\ shown[2].completed
    /\ shown[1].priority = 3 /\ shown[2].priority = 1

\* A step of the menu whose only work on the list is a display_tasks: View,
\* an invalid choice, and the entry of complete, prioritize and delete.
DisplaysOnly(line) ==
    \/ main_cli_view(line)
    \/ main_cli_invalid(line)
    \/ main_cli_complete(line)
    \/ main_cli_prioritize(line)
    \/ main_cli_delete(line)

\* C16: display_tasks changes nothing: View, the display at the top of the
\* menu loop and the display at the entry of complete, prioritize and delete
\* leave the list, the order of its tasks included, and tasks.json as they
\* were; the display after load_tasks leaves the list as loaded; and every
\* step that ends without a save leaves list and file as they were.
C16_DisplayIsPure ==
    [][/\ \A line \in NumLines :
             DisplaysOnly(line) => tasks' = tasks /\ file' = file /\ ~wrote'
       /\ (Load /\ pc' = "menu") =>
             tasks' = load_tasks(file).val /\ file' = file
       /\ (pc # "start" /\ ~wrote') => tasks' = tasks /\ file' = file]_vars

\* C16's case: complete_task has displayed a list of two that is not in
\* display order, and the list is in its own order still.
C16_Witness ==
    /\ pc = "complete_id"
    /\ output = NoOutput
    /\ Len(tasks) = 2
    /\ shown # tasks
    /\ IsPermutation(shown, tasks)

\* C17: save_tasks(tasks) followed by load_tasks() gives the list back, task
\* by task with the same id, description, priority and completed flag, in
\* the same order: for the list of every state of a session, whatever
\* tasks.json holds at that moment, and in the file every completed
\* save_tasks has left.
C17_SaveThenLoadGivesTheList ==
    pc \notin {"start", "error"} =>
        /\ load_tasks(save_tasks(file, tasks)) = [kind |-> "list", val |-> tasks]
        /\ wrote => load_tasks(file) = [kind |-> "list", val |-> tasks]

\* C17's case: a list of two tasks that differ in every field has just been
\* saved, over a file that held another list.
C17_Witness ==
    /\ wrote
    /\ output.msg = "added"
    /\ Len(tasks) = 2
    /\ tasks[1].id # tasks[2].id
    /\ tasks[1].description # tasks[2].description
    /\ tasks[1].priority # tasks[2].priority
    /\ tasks[1].completed # tasks[2].completed

\* C18: load_tasks() leaves tasks.json as it found it, absent, well-formed
\* or malformed, so that a second load_tasks() with no save_tasks() between
\* the two returns what the first returned.
C18_LoadLeavesStorage ==
    [][Load =>
          /\ file' = file
          /\ load_tasks(file') = load_tasks(file)
          /\ pc' = "menu" => load_tasks(file') = [kind |-> "list", val |-> tasks']
      ]_vars

\* C18's case: load_tasks() has read a malformed tasks.json as the empty
\* list, and the malformed text is in the file still.
C18_Witness ==
    /\ pc = "menu"
    /\ output.msg = "welcome"
    /\ tasks = << >>
    /\ file.exists
    /\ file.data # << >>
    /\ json_load(file.data).status = "error"

\* C19: Exit writes the list to tasks.json and ends the program, whether or
\* not an operation of the session changed anything; so an Exit taken while
\* tasks.json still holds the malformed text the session started on, which
\* was loaded as the empty list, leaves the text of the empty list in it.
C19_ExitAlwaysWrites ==
    [][\A line \in NumLines :
          main_cli_exit(line, TRUE) =>
             /\ pc' = "exited"
             /\ wrote'
             /\ tasks' = tasks
             /\ file'.exists
             /\ file'.data = json_dump(tasks)
             /\ (origin.malformed /\ json_load(file.data).status = "error") =>
                   file'.data = json_dump(<< >>)]_vars

\* C19's case: a session started on a malformed tasks.json has ended with
\* Exit, no add made, and the file holds the empty list.
C19_Witness ==
    /\ pc = "exited"
    /\ origin.malformed
    /\ last_issued = 0
    /\ wrote
    /\ tasks = << >>
    /\ file.data = json_dump(<< >>)

\* C20: in a session started on absent or empty storage, the list is at
\* every state in strictly increasing order of id.
C20_IdsIncreaseAlongTheList ==
    origin.empty =>
        \A i, j \in DOMAIN tasks : i < j => tasks[i].id < tasks[j].id

\* C20's case: such a session holds two tasks, after an add at least, and has
\* completed one of them.
C20_Witness ==
    /\ origin.empty
    /\ pc = "menu"
    /\ output.msg = "completed"
    /\ Len(tasks) = 2
    /\ tasks[2].completed
    /\ last_issued = 2

====
